---- MODULE Spec2Model ----
(***************************************************************************)
(* Model of dg's pointer-analysis core, src/analysis/PointsTo/             *)
(* PointerSubgraph.h: the PSNode record (edges, operands, points-to set)   *)
(* and the PointerSubgraph worklist solver (getNodes, enqueue, run).       *)
(*                                                                         *)
(* Four specifications share the variables:                                *)
(*   SpecGraph  the graph-mutation primitives of PSNode                    *)
(*   SpecPts    PSNode construction and the addPointsTo overloads          *)
(*   SpecBFS    PointerSubgraph::getNodes (container-filling template)     *)
(*   SpecRun    PointerSubgraph::run() with the default enqueue            *)
(***************************************************************************)
EXTENDS Integers, Sequences, FiniteSets, TLC

\* ------------------------------------------------------------------ bounds
\* number of PSNode objects
NumNodes == 3
\* largest number of successor entries a builder creates
MaxEdges == 3
\* width of an Offset in bits (uint64_t in the source)
OffsetBits == 2
\* largest points-to set an addPointsTo sequence builds
MaxStored == 3
\* getNodes calls made on one PointerSubgraph
MaxCalls == 2
\* traversals one run() may start before the model stops it
MaxDfsnum == 40
\* nodes with operands in a PSG that is solved
MaxDerived == 2
\* largest set handed to addPointsTo(const std::set<Pointer>&)
MaxSetSize == 2
\* largest number of operand entries the nodes of one scenario hold
MaxOperands == 3

Nodes == 1..NumNodes

VARIABLES
    type,          \* PSNode::type
    operands,      \* PSNode::operands
    offset,        \* PSNode::offset
    successors,    \* PSNode::successors
    predecessors,  \* PSNode::predecessors
    pointsTo,      \* PSNode::pointsTo
    dfsid,         \* PSNode::dfsid
    dfsnum,        \* PointerSubgraph::dfsnum
    queue,         \* PointerSubgraph::queue
    pc,            \* position inside PointerSubgraph::run()
    cont,          \* the container handed to getNodes
    events,        \* the calls of the last iteration of run(), in order
    fpCalls,       \* the functionPointerCall(where, what) calls made so far
    attached,      \* nodes a functionPointerCall attached, not processed since
    call,          \* the last call made: its name, arguments and result
    old            \* the fields the last call could change, before the call

vars == <<type, operands, offset, successors, predecessors, pointsTo,
          dfsid, dfsnum, queue, pc, cont, events, fpCalls, attached,
          call, old>>

nodeVars == <<type, operands, offset>>
hookVars == <<events, fpCalls, attached>>
solverVars == <<dfsid, dfsnum, queue, pc, cont, hookVars>>

\* ------------------------------------------------------- sequence helpers
RECURSIVE SeqsUpTo(_, _)
SeqsUpTo(S, n) ==
    IF n = 0 THEN {<<>>}
    ELSE LET shorter == SeqsUpTo(S, n - 1)
         IN  shorter \cup {Append(q, x) : q \in {r \in shorter : Len(r) = n - 1}, x \in S}

Range(q) == {q[i] : i \in 1..Len(q)}

Count(q, x) == Cardinality({i \in 1..Len(q) : q[i] = x})

\* Op applied to the value of v: v is evaluated once, however often Op
\* uses it
Bind(v, Op(_)) == CHOOSE y \in {Op(x) : x \in {v}} : TRUE

RECURSIVE SumLen(_, _)
SumLen(f, n) == IF n = 0 THEN 0 ELSE Len(f[n]) + SumLen(f, n - 1)

NoEdges == [n \in Nodes |-> <<>>]

\* ============================================================ PSNode edges
\* Each primitive is an operator from the edge lists (S = successors,
\* P = predecessors) to the record [s, p] of the new edge lists.

\* predecessors[i] = n  ->  predecessors[i] = by   (the inner loops of the
\* insert* methods)
Rewrite(q, n, by) == [i \in 1..Len(q) |-> IF q[i] = n THEN by ELSE q[i]]

addSuccessor(S, P, self, succ) ==
    [s |-> [S EXCEPT ![self] = Append(@, succ)],
     p |-> [P EXCEPT ![succ] = Append(@, self)]]

\* the copy loop of replaceSingleSuccessor: every predecessor is pushed
CopyPredecessors(q, self) == SelectSeq(q, LAMBDA p : TRUE)

replaceSingleSuccessor(S, P, self, succ) ==
    LET oldSucc == S[self][1]
        cleared == [S EXCEPT ![self] = <<>>]
        added   == addSuccessor(cleared, P, self, succ)
        tmp     == CopyPredecessors(added.p[oldSucc], self)
    IN  [s |-> added.s,
         p |-> [added.p EXCEPT ![oldSucc] = tmp]]

\* for (succ : list) rewrite every entry n of succ's other-side list
RECURSIVE RewriteAll(_, _, _, _)
RewriteAll(F, list, n, by) ==
    IF list = <<>> THEN F
    ELSE RewriteAll([F EXCEPT ![Head(list)] = Rewrite(@, n, by)],
                    Tail(list), n, by)

insertAfter_noRewrite(S, P, self, n) ==
    LET swapped == [S EXCEPT ![self] = S[n], ![n] = S[self]]
    IN  addSuccessor(swapped, P, n, self)

insertAfter(S, P, self, n) ==
    LET swapped == [S EXCEPT ![self] = S[n], ![n] = S[self]]
        added   == addSuccessor(swapped, P, n, self)
    IN  [s |-> added.s,
         p |-> RewriteAll(added.p, added.s[self], n, self)]

insertBefore_noRewrite(S, P, self, n) ==
    LET swapped == [P EXCEPT ![self] = P[n], ![n] = P[self]]
    IN  addSuccessor(S, swapped, self, n)

insertBefore(S, P, self, n) ==
    LET swapped == [P EXCEPT ![self] = P[n], ![n] = P[self]]
        added   == addSuccessor(S, swapped, self, n)
    IN  [s |-> RewriteAll(added.s, added.p[self], n, self),
         p |-> added.p]

insertSequenceBefore_noRewrite(S, P, self, first, last) ==
    LET swapped == [P EXCEPT ![self] = P[first], ![first] = P[self]]
    IN  addSuccessor(S, swapped, last, self)

insertSequenceBefore(S, P, self, first, last) ==
    LET swapped   == [P EXCEPT ![self] = P[first], ![first] = P[self]]
        rewritten == RewriteAll(S, swapped[first], self, first)
    IN  addSuccessor(rewritten, swapped, last, self)

\* ------------------------------------------------------------- SpecGraph
Idle == [op |-> "none"]
NoOld == [s |-> NoEdges, p |-> NoEdges]

InitGraph ==
    /\ type = [n \in Nodes |-> "NOOP"]
    /\ operands = [n \in Nodes |-> <<>>]
    /\ offset = [n \in Nodes |-> 0]
    /\ successors = NoEdges
    /\ predecessors = NoEdges
    /\ pointsTo = [n \in Nodes |-> {}]
    /\ dfsid = [n \in Nodes |-> 0]
    /\ dfsnum = 0
    /\ queue = <<>>
    /\ pc = "build"
    /\ cont = <<>>
    /\ events = <<>>
    /\ fpCalls = <<>>
    /\ attached = {}
    /\ call = Idle
    /\ old = NoOld

\* a builder stops adding edges at MaxEdges successor entries
Room == SumLen(successors, NumNodes) < MaxEdges

\* call and old describe one observed call: the calls before it are not
\* recorded, and the observed call is the last one of the behaviour
Observe(c, before) ==
    /\ call = Idle
    /\ \/ call' = c /\ old' = before
       \/ UNCHANGED <<call, old>>

SetEdges(r, c) ==
    /\ call = Idle
    /\ successors' = r.s
    /\ predecessors' = r.p
    /\ Observe(c, [s |-> successors, p |-> predecessors])
    /\ UNCHANGED <<nodeVars, pointsTo, solverVars>>

AddSuccessor ==
    /\ Room
    /\ \E self \in Nodes, succ \in Nodes :
        SetEdges(addSuccessor(successors, predecessors, self, succ),
                    [op |-> "addSuccessor", self |-> self, n |-> succ])

ReplaceSingleSuccessor ==
    /\ SumLen(predecessors, NumNodes) < MaxEdges + 1
    /\ \E self \in Nodes, succ \in Nodes :
        /\ Len(successors[self]) = 1
        /\ SetEdges(replaceSingleSuccessor(successors, predecessors, self, succ),
                    [op |-> "replaceSingleSuccessor", self |-> self, n |-> succ])

InsertAfter ==
    /\ Room
    /\ \E self \in Nodes, n \in Nodes :
        /\ Len(predecessors[self]) = 0
        /\ Len(successors[self]) = 0
        /\ SetEdges(insertAfter(successors, predecessors, self, n),
                    [op |-> "insertAfter", self |-> self, n |-> n])

InsertBefore ==
    /\ Room
    /\ \E self \in Nodes, n \in Nodes :
        /\ Len(predecessors[self]) = 0
        /\ Len(successors[self]) = 0
        /\ SetEdges(insertBefore(successors, predecessors, self, n),
                    [op |-> "insertBefore", self |-> self, n |-> n])

InsertSequenceBefore ==
    /\ Room
    /\ \E self \in Nodes, first \in Nodes, last \in Nodes :
        /\ Len(predecessors[first]) = 0
        /\ Len(successors[last]) = 0
        /\ SetEdges(insertSequenceBefore(successors, predecessors, self, first, last),
                    [op |-> "insertSequenceBefore", self |-> self,
                     n |-> first, last |-> last])

NextGraph ==
    \/ AddSuccessor
    \/ ReplaceSingleSuccessor
    \/ InsertAfter
    \/ InsertBefore
    \/ InsertSequenceBefore

SpecGraph == InitGraph /\ [][NextGraph]_vars

\* ------------------------------------------------------- claims: edges
EdgeSymmetric(S, P) ==
    \A a \in Nodes, b \in Nodes : Count(S[a], b) = Count(P[b], a)

\* C5 (P3, edge symmetry): after any sequence of addSuccessor,
\* replaceSingleSuccessor, insertAfter, insertBefore and insertSequenceBefore
\* calls whose asserted preconditions hold, b occurs in a.successors as often
\* as a occurs in b.predecessors, for every pair (a, b).
C5_EdgeSymmetry == EdgeSymmetric(successors, predecessors)

\* C9: for a node a whose only successor is oldSucc, after
\* a.replaceSingleSuccessor(s) a.successors is exactly [s], s.predecessors
\* has gained one occurrence of a, and oldSucc.predecessors has one
\* occurrence of a fewer than before.
C9_ReplaceSingleSuccessor ==
    call.op = "replaceSingleSuccessor" =>
        LET a == call.self
            s == call.n
            oldSucc == old.s[a][1]
        IN  /\ successors[a] = <<s>>
            /\ IF s = oldSucc
               THEN Count(predecessors[s], a) = Count(old.p[s], a)
               ELSE /\ Count(predecessors[s], a) = Count(old.p[s], a) + 1
                    /\ Count(predecessors[oldSucc], a) = Count(old.p[oldSucc], a) - 1

\* what insertAfter promises about X.insertAfter(A)
InsertAfterPost(X, A) ==
    /\ successors[A] = <<X>>
    /\ predecessors[X] = <<A>>
    /\ successors[X] = old.s[A]
    /\ \A b \in Range(old.s[A]) : predecessors[b] = Rewrite(old.p[b], A, X)
    /\ EdgeSymmetric(successors, predecessors)

\* C10 as stated: for a node X with no edges and ANY node A, after
\* X.insertAfter(A) A.successors = [X], X.predecessors = [A], X.successors is
\* A's former successor list, every former successor of A has its
\* predecessor entries for A rewritten to X, and edge symmetry, which held
\* before the call, holds after it.
C10_InsertAfter_AnyNode ==
    (call.op = "insertAfter" /\ EdgeSymmetric(old.s, old.p)) =>
        InsertAfterPost(call.self, call.n)

\* C10 (amended): the same for every node A other than X itself.
C10_InsertAfter ==
    (call.op = "insertAfter" /\ call.self # call.n /\ EdgeSymmetric(old.s, old.p)) =>
        InsertAfterPost(call.self, call.n)

\* witness of C10: X was inserted after a node A that had a self-loop and a
\* second successor
C10_Witness ==
    /\ call.op = "insertAfter"
    /\ call.self # call.n
    /\ EdgeSymmetric(old.s, old.p)
    /\ call.n \in Range(old.s[call.n])
    /\ Len(old.s[call.n]) >= 2
    /\ InsertAfterPost(call.self, call.n)

\* what insertBefore promises about X.insertBefore(B)
InsertBeforePost(X, B) ==
    /\ predecessors[B] = <<X>>
    /\ successors[X] = <<B>>
    /\ predecessors[X] = old.p[B]
    /\ \A a \in Range(old.p[B]) : successors[a] = Rewrite(old.s[a], B, X)
    /\ EdgeSymmetric(successors, predecessors)

\* C11 as stated: for a node X with no edges and ANY node B, after
\* X.insertBefore(B) B.predecessors = [X], X.successors = [B], X.predecessors
\* is B's former predecessor list, every former predecessor of B has its
\* successor entries for B rewritten to X, and edge symmetry, which held
\* before the call, holds after it.
C11_InsertBefore_AnyNode ==
    (call.op = "insertBefore" /\ EdgeSymmetric(old.s, old.p)) =>
        InsertBeforePost(call.self, call.n)

\* C11 (amended): the same for every node B other than X itself.
C11_InsertBefore ==
    (call.op = "insertBefore" /\ call.self # call.n /\ EdgeSymmetric(old.s, old.p)) =>
        InsertBeforePost(call.self, call.n)

\* witness of C11: X was inserted before a node B that had a self-loop and
\* a second predecessor
C11_Witness ==
    /\ call.op = "insertBefore"
    /\ call.self # call.n
    /\ EdgeSymmetric(old.s, old.p)
    /\ call.n \in Range(old.p[call.n])
    /\ Len(old.p[call.n]) >= 2
    /\ \E a \in Range(old.p[call.n]) : a # call.n
    /\ InsertBeforePost(call.self, call.n)

\* nodes reachable from the nodes of a set via the successor lists S, these
\* included
RECURSIVE Reach(_, _)
Reach(S, from) ==
    LET more == from \cup UNION {Range(S[n]) : n \in from}
    IN  IF more = from THEN from ELSE Reach(S, more)

\* C12: for a chain first -> ... -> last, disjoint from R, where first has no
\* predecessors and last has no successors, after
\* R.insertSequenceBefore((first, last)) first.predecessors is R's former
\* predecessor list, every former predecessor of R has its successor
\* entries for R rewritten to first, R.predecessors = [last],
\* last.successors = [R], and edge symmetry, which held before the call,
\* holds after it (R may have had a self-loop, first may be last).
C12_InsertSequenceBefore ==
    LET R == call.self
        first == call.n
        last == call.last
    IN  (/\ call.op = "insertSequenceBefore"
         /\ EdgeSymmetric(old.s, old.p)
         /\ last \in Reach(old.s, {first})
         /\ R \notin Reach(old.s, {first})) =>
            /\ predecessors[first] = old.p[R]
            /\ \A a \in Range(old.p[R]) :
                  successors[a] = Rewrite(old.s[a], R, first)
            /\ predecessors[R] = <<last>>
            /\ successors[last] = <<R>>
            /\ EdgeSymmetric(successors, predecessors)

\* witness of C12: a chain first -> last of two nodes was inserted before a
\* node R that had a self-loop
C12_Witness ==
    /\ call.op = "insertSequenceBefore"
    /\ EdgeSymmetric(old.s, old.p)
    /\ call.n # call.last
    /\ old.s[call.n] = <<call.last>>
    /\ call.self \notin {call.n, call.last}
    /\ call.self \in Range(old.p[call.self])
    /\ successors[call.self] = <<call.n>>
    /\ predecessors[call.n] = <<call.self>>
    /\ predecessors[call.self] = <<call.last>>

\* ===================================================== Offset and Pointer
\* Offset wraps a uint64_t, UNKNOWN_OFFSET is the all-ones pattern
\* (Pointer.h); a Pointer is the pair <<target, offset>>.
UNKNOWN_OFFSET == 2^OffsetBits - 1
Offsets == 0..UNKNOWN_OFFSET
isUnknown(o) == o = UNKNOWN_OFFSET
Pointer(n, o) == <<n, o>>
Pointers == Nodes \X Offsets

\* std::set<Pointer> iterates in increasing order: by target, then offset
PointerLess(a, b) == a[1] < b[1] \/ (a[1] = b[1] /\ a[2] < b[2])
First(ptrs) == CHOOSE a \in ptrs : \A b \in ptrs : a = b \/ PointerLess(a, b)

\* ======================================================= PSNode pointsTo
\* Each mutator is an operator from the set P (this->pointsTo) to the
\* record [pts, ret]: the new set and the returned "changed" flag.

\* erase the pointers to target with a concrete offset, insert
\* (target, UNKNOWN_OFFSET)
addPointsToUnknownOffset(P, target) ==
    LET kept == {q \in P : ~(q[1] = target /\ ~isUnknown(q[2]))}
        new  == kept \cup {Pointer(target, UNKNOWN_OFFSET)}
    IN  [pts |-> new, ret |-> new # P]

addPointsTo_noUnknownCheck(P, n, o) ==
    IF isUnknown(o)
    THEN addPointsToUnknownOffset(P, n)
    ELSE [pts |-> P \cup {Pointer(n, o)}, ret |-> Pointer(n, o) \notin P]

addPointsTo_overwrite(P, n, o) ==
    IF Pointer(n, UNKNOWN_OFFSET) \in P
    THEN [pts |-> P, ret |-> FALSE]
    ELSE IF isUnknown(o)
         THEN addPointsToUnknownOffset(P, n)
         ELSE [pts |-> {Pointer(n, o)}, ret |-> Pointer(n, o) \notin P]

addPointsTo_alwaysChanged(P, n, o) ==
    IF Pointer(n, UNKNOWN_OFFSET) \in P
    THEN [pts |-> P, ret |-> FALSE]
    ELSE IF isUnknown(o)
         THEN addPointsToUnknownOffset(P, n)
         ELSE [pts |-> P \cup {Pointer(n, o)}, ret |-> TRUE]

\* bool addPointsTo(PSNode *n, Offset o)
addPointsTo(P, n, o) ==
    IF Pointer(n, UNKNOWN_OFFSET) \in P
    THEN [pts |-> P, ret |-> FALSE]
    ELSE IF isUnknown(o)
         THEN addPointsToUnknownOffset(P, n)
         ELSE [pts |-> P \cup {Pointer(n, o)}, ret |-> Pointer(n, o) \notin P]

RECURSIVE addPointsToRest_lastFlag(_, _, _)
addPointsToRest_lastFlag(P, ptrs, changed) ==
    IF ptrs = {} THEN [pts |-> P, ret |-> changed]
    ELSE Bind(First(ptrs), LAMBDA ptr :
              Bind(addPointsTo(P, ptr[1], ptr[2]), LAMBDA r :
                   addPointsToRest_lastFlag(r.pts, ptrs \ {ptr}, r.ret)))

\* bool addPointsTo(const std::set<Pointer>& ptrs): the loop over ptrs,
\* with the pointers still to come and the flag so far
RECURSIVE addPointsToRest(_, _, _)
addPointsToRest(P, ptrs, changed) ==
    IF ptrs = {} THEN [pts |-> P, ret |-> changed]
    ELSE Bind(First(ptrs), LAMBDA ptr :
              Bind(addPointsTo(P, ptr[1], ptr[2]), LAMBDA r :
                   addPointsToRest(r.pts, ptrs \ {ptr}, changed \/ r.ret)))

addPointsToSet(P, ptrs) == addPointsToRest(P, ptrs, FALSE)

\* PSNode::PSNode(t, ...): the fields the constructor sets from its
\* arguments; ops are the PSNode* arguments, off the uint64_t one
AllocTypes == {"ALLOC", "DYN_ALLOC", "FUNCTION"}

PSNode_noSelfPointer(self, t, ops, off) ==
    [type |-> t,
     operands |-> IF t \in {"CAST", "LOAD", "CALL_FUNCPTR", "GEP", "STORE",
                            "MEMCPY", "CALL_RETURN", "PHI", "RETURN", "CALL"}
                  THEN ops ELSE <<>>,
     offset |-> IF t \in {"MEMCPY", "GEP", "CONSTANT"} THEN off ELSE 0,
     pointsTo |-> CASE t = "CONSTANT" -> {Pointer(ops[1], off)}
                    [] t = "NULL_ADDR" -> {Pointer(self, 0)}
                    [] t = "UNKNOWN_MEM" -> {Pointer(self, UNKNOWN_OFFSET)}
                    [] OTHER -> {}]

PSNode_sentinelAtZero(self, t, ops, off) ==
    [type |-> t,
     operands |-> IF t \in {"CAST", "LOAD", "CALL_FUNCPTR", "GEP", "STORE",
                            "MEMCPY", "CALL_RETURN", "PHI", "RETURN", "CALL"}
                  THEN ops ELSE <<>>,
     offset |-> IF t \in {"MEMCPY", "GEP", "CONSTANT"} THEN off ELSE 0,
     pointsTo |-> CASE t \in AllocTypes -> addPointsTo({}, self, 0).pts
                    [] t = "CONSTANT" -> {Pointer(ops[1], off)}
                    [] t \in {"NULL_ADDR", "UNKNOWN_MEM"} -> {Pointer(self, 0)}
                    [] OTHER -> {}]

PSNode(self, t, ops, off) ==
    [type |-> t,
     operands |-> IF t \in {"CAST", "LOAD", "CALL_FUNCPTR", "GEP", "STORE",
                            "MEMCPY", "CALL_RETURN", "PHI", "RETURN", "CALL"}
                  THEN ops ELSE <<>>,
     offset |-> IF t \in {"MEMCPY", "GEP", "CONSTANT"} THEN off ELSE 0,
     pointsTo |-> CASE t \in AllocTypes -> addPointsTo({}, self, 0).pts
                    [] t = "CONSTANT" -> {Pointer(ops[1], off)}
                    [] t = "NULL_ADDR" -> {Pointer(self, 0)}
                    [] t = "UNKNOWN_MEM" -> {Pointer(self, UNKNOWN_OFFSET)}
                    [] OTHER -> {}]

\* --------------------------------------------------------------- SpecPts
\* offsets a caller passes in
InOffsets == {0, 1, UNKNOWN_OFFSET}
InPointers == Nodes \X InOffsets
InSets == {ps \in SUBSET InPointers : Cardinality(ps) \in 1..MaxSetSize}

\* constructor calls that give a node a points-to set of its own
CtorCalls ==
    [t : AllocTypes \cup {"NOOP", "NULL_ADDR", "UNKNOWN_MEM"}, ops : {<<>>}, off : {0}]
    \cup [t : {"CONSTANT"}, ops : {<<n>> : n \in Nodes}, off : InOffsets]

\* the nodes of a points-to scenario: allocations, one of them replaced by
\* a node of any other kind
CtorFamilies ==
    {[n \in Nodes |-> [t |-> "ALLOC", ops |-> <<>>, off |-> 0]]}
    \cup {[n \in Nodes |-> IF n = m THEN c ELSE [t |-> "ALLOC", ops |-> <<>>, off |-> 0]] :
            m \in Nodes, c \in CtorCalls}

Constructed(f) ==
    LET obj == [n \in Nodes |-> PSNode(n, f[n].t, f[n].ops, f[n].off)]
    IN  /\ type = [n \in Nodes |-> obj[n].type]
        /\ operands = [n \in Nodes |-> obj[n].operands]
        /\ offset = [n \in Nodes |-> obj[n].offset]
        /\ pointsTo = [n \in Nodes |-> obj[n].pointsTo]

InitPts ==
    /\ \E f \in CtorFamilies : Constructed(f)
    /\ successors = NoEdges
    /\ predecessors = NoEdges
    /\ dfsid = [n \in Nodes |-> 0]
    /\ dfsnum = 0
    /\ queue = <<>>
    /\ pc = "build"
    /\ cont = <<>>
    /\ events = <<>>
    /\ fpCalls = <<>>
    /\ attached = {}
    /\ call = Idle
    /\ old = [pts |-> [n \in Nodes |-> {}]]

\* a points-to scenario mutates the set of one node; the other nodes are the
\* allocations its pointers refer to
Pristine(n) == type[n] = "ALLOC" /\ pointsTo[n] = {Pointer(n, 0)}

SetPointsTo(self, r, c) ==
    /\ Cardinality(r.pts) <= MaxStored
    /\ pointsTo' = [pointsTo EXCEPT ![self] = r.pts]
    /\ Observe([c EXCEPT !.ret = r.ret], [pts |-> pointsTo])
    /\ UNCHANGED <<nodeVars, successors, predecessors, solverVars>>

\* bool addPointsTo(PSNode *n, Offset o) and bool addPointsTo(const Pointer&)
AddPointsTo ==
    /\ call = Idle
    /\ \E self \in Nodes, ptr \in InPointers :
        /\ \A n \in Nodes \ {self} : Pristine(n)
        /\ SetPointsTo(self, addPointsTo(pointsTo[self], ptr[1], ptr[2]),
                       [op |-> "addPointsTo", self |-> self, ptrs |-> {ptr}, ret |-> FALSE])

\* bool addPointsTo(const std::set<Pointer>&)
AddPointsToSet ==
    /\ call = Idle
    /\ \E self \in Nodes, ptrs \in InSets :
        /\ \A n \in Nodes \ {self} : Pristine(n)
        /\ SetPointsTo(self, addPointsToSet(pointsTo[self], ptrs),
                       [op |-> "addPointsToSet", self |-> self, ptrs |-> ptrs, ret |-> FALSE])

NextPts ==
    \/ AddPointsTo
    \/ AddPointsToSet

SpecPts == InitPts /\ [][NextPts]_vars

\* ---------------------------------------------------- claims: points-to
Saturated(P) ==
    \A q \in P : isUnknown(q[2]) =>
        \A c \in Offsets : ~isUnknown(c) => Pointer(q[1], c) \notin P

\* C4 (P2, saturation): after construction and after any sequence of
\* addPointsTo calls of any overload, no node's pointsTo holds both
\* (t, UNKNOWN) and (t, c) for a concrete c; inserting (t, UNKNOWN) leaves
\* (t, UNKNOWN) as the only entry for t, and a single-pointer insert of
\* (t, UNKNOWN) changes nothing else.
C4_Saturation ==
    /\ \A n \in Nodes : Saturated(pointsTo[n])
    /\ call.op \in {"addPointsTo", "addPointsToSet"} =>
          \A q \in call.ptrs : isUnknown(q[2]) =>
              {r \in pointsTo[call.self] : r[1] = q[1]} = {q}
    /\ call.op = "addPointsTo" =>
          \A q \in call.ptrs : isUnknown(q[2]) =>
              pointsTo[call.self] =
                  {r \in old.pts[call.self] : r[1] # q[1]} \cup {q}

\* C13 (changed flag): every addPointsTo overload returns true exactly when
\* the node's pointsTo after the call differs from pointsTo before it; adding
\* (t, c) when (t, UNKNOWN) is present, or a pointer already present, leaves
\* the set as it was and returns false.
C13_ChangedFlag ==
    call.op \in {"addPointsTo", "addPointsToSet"} =>
        /\ call.ret <=> pointsTo[call.self] # old.pts[call.self]
        /\ (\A q \in call.ptrs :
                \/ q \in old.pts[call.self]
                \/ Pointer(q[1], UNKNOWN_OFFSET) \in old.pts[call.self]) =>
              /\ ~call.ret
              /\ pointsTo[call.self] = old.pts[call.self]

\* witness of C13: the set overload returned true for a set whose lowest
\* pointer changed the node's set and whose highest one did not
C13_Witness ==
    /\ call.op = "addPointsToSet"
    /\ call.ret
    /\ Cardinality(call.ptrs) = 2
    /\ \E q \in call.ptrs :
          /\ \A r \in call.ptrs : r = q \/ PointerLess(r, q)
          /\ \/ q \in old.pts[call.self]
             \/ Pointer(q[1], UNKNOWN_OFFSET) \in old.pts[call.self]
    /\ pointsTo[call.self] # old.pts[call.self]

\* C15 as stated (allocation self-pointer): every ALLOC, DYN_ALLOC and
\* FUNCTION node has (self, 0) in its pointsTo after construction and after
\* any sequence of addPointsTo calls on it, calls adding (self, UNKNOWN)
\* included.
C15_SelfPointer_Kept ==
    \A n \in Nodes : type[n] \in AllocTypes => Pointer(n, 0) \in pointsTo[n]

\* C15 (allocation self-pointer), amended: every ALLOC, DYN_ALLOC and
\* FUNCTION node denotes itself after construction and after any sequence of
\* addPointsTo calls on it: its pointsTo holds (self, 0) or (self, UNKNOWN).
\* A call keeps (self, 0) unless it adds (self, UNKNOWN), which takes the
\* place of (self, 0).
C15_SelfPointer ==
    /\ \A n \in Nodes : type[n] \in AllocTypes =>
          \/ Pointer(n, 0) \in pointsTo[n]
          \/ Pointer(n, UNKNOWN_OFFSET) \in pointsTo[n]
    /\ (/\ call.op \in {"addPointsTo", "addPointsToSet"}
        /\ type[call.self] \in AllocTypes
        /\ Pointer(call.self, 0) \in old.pts[call.self]) =>
          IF Pointer(call.self, UNKNOWN_OFFSET) \in call.ptrs
          THEN {q \in pointsTo[call.self] : q[1] = call.self}
                   = {Pointer(call.self, UNKNOWN_OFFSET)}
          ELSE Pointer(call.self, 0) \in pointsTo[call.self]

\* witness of C15: (self, UNKNOWN) was added to an allocation that held
\* (self, 0) and a pointer to another node
C15_Witness ==
    /\ call.op = "addPointsTo"
    /\ type[call.self] \in AllocTypes
    /\ call.ptrs = {Pointer(call.self, UNKNOWN_OFFSET)}
    /\ Pointer(call.self, 0) \in old.pts[call.self]
    /\ \E q \in old.pts[call.self] : q[1] # call.self
    /\ Pointer(call.self, 0) \notin pointsTo[call.self]
    /\ Pointer(call.self, UNKNOWN_OFFSET) \in pointsTo[call.self]

\* witness of C4: (t, UNKNOWN) was inserted into a set that held two
\* concrete offsets of t
C4_Witness ==
    /\ call.op = "addPointsTo"
    /\ \E t \in Nodes :
          /\ call.ptrs = {Pointer(t, UNKNOWN_OFFSET)}
          /\ Cardinality({r \in old.pts[call.self] : r[1] = t /\ ~isUnknown(r[2])}) >= 2
          /\ {r \in pointsTo[call.self] : r[1] = t} = {Pointer(t, UNKNOWN_OFFSET)}

\* --------------------------------------------------------------- SpecOps
\* size_t addOperand(PSNode *n): the new operands and the returned size
addOperand(ops, n) == [ops |-> Append(ops, n), ret |-> Len(ops) + 1]

\* constructor calls of every kind, each with the arguments its case of the
\* constructor reads; a null-terminated list for PHI, CALL, CALL_RETURN and
\* RETURN
OperandCtorCalls ==
    [t : {"ALLOC", "DYN_ALLOC", "FUNCTION", "NOOP", "ENTRY", "NULL_ADDR",
          "UNKNOWN_MEM"}, ops : {<<>>}, off : {0}]
    \cup [t : {"CONSTANT"}, ops : {<<n>> : n \in Nodes}, off : {0}]
    \cup [t : {"CAST", "LOAD", "CALL_FUNCPTR"}, ops : {<<n>> : n \in Nodes}, off : {0}]
    \cup [t : {"GEP"}, ops : {<<n>> : n \in Nodes}, off : {1}]
    \cup [t : {"STORE", "MEMCPY"}, ops : {<<n, m>> : n, m \in Nodes}, off : {0}]
    \cup [t : {"PHI", "CALL", "CALL_RETURN", "RETURN"},
          ops : SeqsUpTo(Nodes, 2), off : {0}]

\* the nodes of an operand scenario: allocations, one of them replaced by a
\* node of any kind
OperandFamilies ==
    {[n \in Nodes |-> IF n = m THEN c ELSE [t |-> "ALLOC", ops |-> <<>>, off |-> 0]] :
        m \in Nodes, c \in OperandCtorCalls}

InitOps ==
    /\ \E f \in OperandFamilies : Constructed(f)
    /\ successors = NoEdges
    /\ predecessors = NoEdges
    /\ dfsid = [n \in Nodes |-> 0]
    /\ dfsnum = 0
    /\ queue = <<>>
    /\ pc = "build"
    /\ cont = <<>>
    /\ events = <<>>
    /\ fpCalls = <<>>
    /\ attached = {}
    /\ call = Idle
    /\ old = [ops |-> [n \in Nodes |-> <<>>]]

\* self.addOperand(n)
AddOperand ==
    /\ SumLen(operands, NumNodes) < MaxOperands
    /\ \E self \in Nodes, n \in Nodes :
          LET r == addOperand(operands[self], n)
          IN  /\ operands' = [operands EXCEPT ![self] = r.ops]
              /\ call' = [op |-> "addOperand", self |-> self, n |-> n, ret |-> r.ret]
    /\ old' = [ops |-> operands]
    /\ UNCHANGED <<type, offset, successors, predecessors, pointsTo, solverVars>>

NextOps == AddOperand

SpecOps == InitOps /\ [][NextOps]_vars

\* ----------------------------------------------------- claims: operands
\* the kinds with a fixed number of operands
NoOperandTypes == {"ALLOC", "DYN_ALLOC", "FUNCTION", "NOOP", "ENTRY", "CONSTANT",
                   "NULL_ADDR", "UNKNOWN_MEM"}
OneOperandTypes == {"CAST", "LOAD", "GEP", "CALL_FUNCPTR"}
TwoOperandTypes == {"STORE", "MEMCPY"}

\* C18 (operand arity): in every reachable state the number of operands of
\* each node matches its kind: 0 for ALLOC, DYN_ALLOC, FUNCTION, NOOP,
\* ENTRY, CONSTANT, NULL_ADDR and UNKNOWN_MEM, 1 for CAST, LOAD, GEP and
\* CALL_FUNCPTR, 2 for STORE and MEMCPY; an addOperand call that would
\* break this aborts instead.
C18_OperandArity ==
    \A n \in Nodes :
        /\ type[n] \in NoOperandTypes => Len(operands[n]) = 0
        /\ type[n] \in OneOperandTypes => Len(operands[n]) = 1
        /\ type[n] \in TwoOperandTypes => Len(operands[n]) = 2

\* ======================================================= PointerSubgraph
\* PointerSubgraph::root
root == 1
\* a null PSNode*
nullptr == 0

\* for (PSNode *s : *start_set): a std::set<PSNode *> iterates in
\* increasing order
RECURSIVE InOrder(_, _)
InOrder(ss, n) ==
    IF n > NumNodes THEN <<>>
    ELSE IF n \in ss THEN <<n>> \o InOrder(ss, n + 1)
         ELSE InOrder(ss, n + 1)

\* for (PSNode *succ : cur->successors) if (succ->dfsid != dfsnum) ...
RECURSIVE pushUnvisited(_, _, _, _)
pushUnvisited(list, ids, num, fifo) ==
    IF list = <<>> THEN [dfsid |-> ids, fifo |-> fifo]
    ELSE IF ids[Head(list)] # num
         THEN pushUnvisited(Tail(list), [ids EXCEPT ![Head(list)] = num],
                            num, Append(fifo, Head(list)))
         ELSE pushUnvisited(Tail(list), ids, num, fifo)

\* while (!fifo.empty()) { cur = fifo.pop(); cont.push(cur); ... }
RECURSIVE drain(_, _, _, _, _)
drain(S, ids, num, fifo, container) ==
    IF fifo = <<>> THEN [cont |-> container, dfsid |-> ids, dfsnum |-> num]
    ELSE Bind(pushUnvisited(S[Head(fifo)], ids, num, Tail(fifo)),
              LAMBDA r : drain(S, r.dfsid, num, r.fifo,
                               Append(container, Head(fifo))))

\* the first fifo of getNodes; start_set is <<>> for a null pointer and
\* <<ss>> for a pointer to the set ss
startFifo(start_node, start_set) ==
    IF start_set # <<>> THEN InOrder(start_set[1], 1)
    ELSE IF start_node = nullptr THEN <<root>>
         ELSE <<start_node>>

getNodes_rootUnmarked(S, ids, num, container, start_node, start_set) ==
    drain(S, ids, num + 1, startFifo(start_node, start_set), container)

\* template <typename ContT> void getNodes(ContT&, PSNode *, std::set<PSNode *> *)
getNodes(S, ids, num, container, start_node, start_set) ==
    drain(S, [ids EXCEPT ![root] = num + 1], num + 1,
          startFifo(start_node, start_set), container)

\* for (PSNode *succ : n->successors) { succ->dfsid = dfsnum;
\* fifo.push(succ); }
RECURSIVE pushAll(_, _, _, _)
pushAll(list, ids, num, fifo) ==
    IF list = <<>> THEN [dfsid |-> ids, fifo |-> fifo]
    ELSE pushAll(Tail(list), [ids EXCEPT ![Head(list)] = num], num,
                 Append(fifo, Head(list)))

\* while (!fifo.empty()) { cur = fifo.pop(); ret = cont.insert(cur).second;
\* assert(ret && "BUG: Tried to insert something twice"); ... }: ret is
\* FALSE when the assertion failed, and the call ends there
RECURSIVE drainSet(_, _, _, _, _)
drainSet(S, ids, num, fifo, set) ==
    IF fifo = <<>>
    THEN [cont |-> set, dfsid |-> ids, dfsnum |-> num, ret |-> TRUE]
    ELSE IF Head(fifo) \in set
         THEN [cont |-> set, dfsid |-> ids, dfsnum |-> num, ret |-> FALSE]
         ELSE Bind(pushUnvisited(S[Head(fifo)], ids, num, Tail(fifo)),
                   LAMBDA r : drainSet(S, r.dfsid, num, r.fifo,
                                       set \cup {Head(fifo)}))

\* void getNodes(std::set<PSNode *>& cont, PSNode *n = nullptr)
getNodes_stdset(S, ids, num, set, n) ==
    LET from == IF n = nullptr THEN root ELSE n
        r    == pushAll(S[from], ids, num + 1,
                        IF n = nullptr THEN <<root>> ELSE <<>>)
    IN  drainSet(S, r.dfsid, num + 1, r.fifo, set)

\* ---------------------------------------------------------------- graphs
\* the edge lists a builder reaches with addSuccessor calls
RECURSIVE Built(_)
Built(es) ==
    IF es = <<>> THEN [s |-> NoEdges, p |-> NoEdges]
    ELSE LET g == Built(SubSeq(es, 1, Len(es) - 1))
             e == es[Len(es)]
         IN  addSuccessor(g.s, g.p, e[1], e[2])

\* one call sequence for each successor function: the calls on a node with
\* a lower number come first
BySource(es) == \A i \in 1..(Len(es) - 1) : es[i][1] <= es[i + 1][1]

Graphs ==
    {Built(es) : es \in {q \in SeqsUpTo(Nodes \X Nodes, MaxEdges) : BySource(q)}}

\* --------------------------------------------------------------- SpecBFS
InitBFS ==
    /\ \E g \in Graphs : successors = g.s /\ predecessors = g.p
    /\ type = [n \in Nodes |-> "NOOP"]
    /\ operands = [n \in Nodes |-> <<>>]
    /\ offset = [n \in Nodes |-> 0]
    /\ pointsTo = [n \in Nodes |-> {}]
    /\ dfsid = [n \in Nodes |-> 0]
    /\ dfsnum = 0
    /\ queue = <<>>
    /\ pc = "built"
    /\ cont = <<>>
    /\ events = <<>>
    /\ fpCalls = <<>>
    /\ attached = {}
    /\ call = Idle
    /\ old = [dfsid |-> [n \in Nodes |-> 0], dfsnum |-> 0]

\* a call of getNodes with an empty container of its own
Enumerate(start_node, start_set, c) ==
    LET r == getNodes(successors, dfsid, dfsnum, <<>>, start_node, start_set)
    IN  /\ cont' = r.cont
        /\ dfsid' = r.dfsid
        /\ dfsnum' = r.dfsnum
        /\ Observe(c, [dfsid |-> dfsid, dfsnum |-> dfsnum])
        /\ UNCHANGED <<nodeVars, successors, predecessors, pointsTo, queue, pc,
                       hookVars>>

\* getNodes(cont)
GetNodes ==
    /\ call = Idle
    /\ dfsnum < MaxCalls
    /\ Enumerate(nullptr, <<>>, [op |-> "getNodes", from |-> {root}])

\* getNodes(cont, start_node)
GetNodesFrom ==
    /\ call = Idle
    /\ dfsnum < MaxCalls
    /\ \E n \in Nodes :
          Enumerate(n, <<>>, [op |-> "getNodesFrom", from |-> {n}])

\* getNodes(cont, nullptr, &start_set)
GetNodesSet ==
    /\ call = Idle
    /\ dfsnum < MaxCalls
    /\ \E ss \in SUBSET Nodes :
          Enumerate(nullptr, <<ss>>, [op |-> "getNodesSet", from |-> ss])

\* getNodes(cont) and getNodes(cont, n) with an empty std::set cont; the
\* set is kept as the list a loop over it yields
GetNodesStdSet ==
    /\ call = Idle
    /\ dfsnum < MaxCalls
    /\ \E n \in Nodes \cup {nullptr} :
          LET r == getNodes_stdset(successors, dfsid, dfsnum, {}, n)
          IN  /\ cont' = InOrder(r.cont, 1)
              /\ dfsid' = r.dfsid
              /\ dfsnum' = r.dfsnum
              /\ Observe([op |-> "getNodesStdSet", start |-> n, ret |-> r.ret],
                         [dfsid |-> dfsid, dfsnum |-> dfsnum])
    /\ UNCHANGED <<nodeVars, successors, predecessors, pointsTo, queue, pc,
                   hookVars>>

NextBFS ==
    \/ GetNodes
    \/ GetNodesFrom
    \/ GetNodesSet
    \/ GetNodesStdSet

SpecBFS == InitBFS /\ [][NextBFS]_vars

\* ------------------------------------------------------ claims: getNodes
\* the container holds every node of the set exactly once, and nothing else
ExactlyOnce(container, set) ==
    /\ Range(container) = set
    /\ Len(container) = Cardinality(set)

\* C6 (P6): for every start node and every start set, getNodes pushes every
\* node reachable from the start(s) via successors, the start(s) included,
\* into the container exactly once.
C6_EnumerationFromStart ==
    call.op \in {"getNodesFrom", "getNodesSet"} =>
        ExactlyOnce(cont, Reach(successors, call.from))

\* C7: getNodes called with no start node and no start set pushes every node
\* reachable from root, root included, into the container exactly once, and
\* the dfsnum of the call is greater than every dfsid left by earlier calls.
C7_EnumerationFromRoot ==
    call.op = "getNodes" =>
        /\ ExactlyOnce(cont, Reach(successors, {root}))
        /\ \A n \in Nodes : old.dfsid[n] < dfsnum
        /\ \A n \in Nodes : dfsid[n] <= dfsnum

\* C22 (assertion of the std::set overload): getNodes(cont) and
\* getNodes(cont, n) with an empty std::set never try to insert a node
\* twice: the assertion "BUG: Tried to insert something twice" holds on
\* every graph and for every n.
C22_NoDoubleInsert ==
    call.op = "getNodesStdSet" => call.ret

\* witness of C7: a second traversal from a root that lies on a cycle, in a
\* graph with a duplicate edge, after an earlier call left dfsids behind
C7_Witness ==
    /\ call.op = "getNodes"
    /\ old.dfsnum >= 1
    /\ \E n \in Nodes : old.dfsid[n] = old.dfsnum
    /\ \E n \in Nodes \ {root} :
          /\ root \in Range(successors[n])
          /\ Count(successors[root], n) >= 2
    /\ ExactlyOnce(cont, Reach(successors, {root}))

\* ============================================================ processNode
\* o (+) offset of a GEP: concrete addition on the uint64_t, UNKNOWN when
\* either side is UNKNOWN
OffsetAdd(a, b) ==
    IF isUnknown(a) \/ isUnknown(b) THEN UNKNOWN_OFFSET
    ELSE (a + b) % (2^OffsetBits)

\* GEP: for each (t, o) of the operand, add (t, o (+) offset)
RECURSIVE gepRest(_, _, _, _)
gepRest(P, ptrs, off, changed) ==
    IF ptrs = {} THEN [pts |-> P, ret |-> changed]
    ELSE Bind(First(ptrs), LAMBDA ptr :
              Bind(addPointsTo(P, ptr[1], OffsetAdd(ptr[2], off)), LAMBDA r :
                   gepRest(r.pts, ptrs \ {ptr}, off, changed \/ r.ret)))

\* PHI, CALL, CALL_RETURN, RETURN: union of the operands' sets
RECURSIVE phiRest(_, _, _, _)
phiRest(P, PT, ops, changed) ==
    IF ops = <<>> THEN [pts |-> P, ret |-> changed]
    ELSE Bind(addPointsToSet(P, PT[Head(ops)]), LAMBDA r :
              phiRest(r.pts, PT, Tail(ops), changed \/ r.ret))

\* virtual bool functionPointerCall(PSNode *where, PSNode *what): the
\* default hook changes nothing
functionPointerCall(where, what) == FALSE

\* CALL_FUNCPTR: the targets t of the pointers (t, _) of ptrs whose kind is
\* FUNCTION, one for each pointer, in the order of the set
RECURSIVE functionTargets(_, _)
functionTargets(T, ptrs) ==
    IF ptrs = {} THEN <<>>
    ELSE Bind(First(ptrs), LAMBDA ptr :
              (IF T[ptr[1]] = "FUNCTION" THEN <<ptr[1]>> ELSE <<>>)
              \o functionTargets(T, ptrs \ {ptr}))

\* the callees processNode(node) hands to functionPointerCall(node, callee)
calledFunctions(T, O, PT, node) ==
    IF T[node] = "CALL_FUNCPTR" THEN functionTargets(T, PT[O[node][1]])
    ELSE <<>>

\* bool PointerSubgraph::processNode(PSNode *node): the new pointsTo of the
\* node and the returned flag; PT is the pointsTo of every node
processNode(T, O, Off, PT, node) ==
    CASE T[node] = "CAST" -> addPointsToSet(PT[node], PT[O[node][1]])
      [] T[node] = "GEP" -> gepRest(PT[node], PT[O[node][1]], Off[node], FALSE)
      [] T[node] \in {"PHI", "CALL", "CALL_RETURN", "RETURN"} ->
            phiRest(PT[node], PT, O[node], FALSE)
      [] T[node] = "CALL_FUNCPTR" ->
            [pts |-> PT[node],
             ret |-> \E what \in Range(calledFunctions(T, O, PT, node)) :
                        functionPointerCall(node, what)]
      [] OTHER -> [pts |-> PT[node], ret |-> FALSE]

\* =========================================================== run, enqueue
\* virtual void enqueue(PSNode *n): getNodes(queue, n)
enqueue(S, ids, num, q, n) == getNodes(S, ids, num, q, n, <<>>)

\* --------------------------------------------------------------- SpecRun
\* a PSG to solve: root reaches every node
RunGraphs == {g \in Graphs : Reach(g.s, {root}) = Nodes}

\* offsets of the GEP nodes
GepOffsets == {1, UNKNOWN_OFFSET}

\* constructor calls for the node n of a PSG: an allocation, or a node with
\* operands among the other nodes
RunCtorCalls(n) ==
    LET others == Nodes \ {n}
    IN  [t : {"ALLOC"}, ops : {<<>>}, off : {0}]
        \cup [t : {"CAST"}, ops : {<<m>> : m \in others}, off : {0}]
        \cup [t : {"GEP"}, ops : {<<m>> : m \in others}, off : GepOffsets]
        \cup [t : {"PHI"},
              ops : {ab \in others \X others : ab[1] < ab[2]},
              off : {0}]

\* the constructor calls of the nodes 1..k
RECURSIVE CtorCallsUpTo(_)
CtorCallsUpTo(k) ==
    IF k = 0 THEN {<<>>}
    ELSE {Append(f, c) : f \in CtorCallsUpTo(k - 1), c \in RunCtorCalls(k)}

\* root is an allocation, at most MaxDerived nodes have operands
RunFamilies ==
    {f \in CtorCallsUpTo(NumNodes) :
        /\ f[root].t = "ALLOC"
        /\ Cardinality({n \in Nodes : f[n].t # "ALLOC"}) <= MaxDerived}

InitRun ==
    /\ type = [n \in Nodes |-> "NOOP"]
    /\ operands = [n \in Nodes |-> <<>>]
    /\ offset = [n \in Nodes |-> 0]
    /\ successors = NoEdges
    /\ predecessors = NoEdges
    /\ pointsTo = [n \in Nodes |-> {}]
    /\ dfsid = [n \in Nodes |-> 0]
    /\ dfsnum = 0
    /\ queue = <<>>
    /\ pc = "new"
    /\ cont = <<>>
    /\ events = <<>>
    /\ fpCalls = <<>>
    /\ attached = {}
    /\ call = Idle
    /\ old = [pts |-> [n \in Nodes |-> {}]]

\* the builder constructs the nodes with the calls f, links them as g and
\* hands root to PointerSubgraph(PSNode *r): dfsnum(0), root(r), empty queue
Build(g, f) ==
    LET obj == [n \in Nodes |-> PSNode(n, f[n].t, f[n].ops, f[n].off)]
    IN  /\ pc = "new"
        /\ successors' = g.s
        /\ predecessors' = g.p
        /\ type' = [n \in Nodes |-> obj[n].type]
        /\ operands' = [n \in Nodes |-> obj[n].operands]
        /\ offset' = [n \in Nodes |-> obj[n].offset]
        /\ pointsTo' = [n \in Nodes |-> obj[n].pointsTo]
        /\ pc' = "start"
        /\ UNCHANGED <<dfsid, dfsnum, queue, cont, hookVars, call, old>>

RunBuild ==
    /\ pc = "new"
    /\ \E g \in RunGraphs, f \in RunFamilies : Build(g, f)

\* the PSG whose edges are the cycle root -> 2 -> ... -> k -> root
Ring(k) == Built([i \in 1..k |-> <<i, IF i = k THEN root ELSE i + 1>>])

RingSizes == {k \in Nodes : k <= MaxEdges}

\* constructor calls for the node n of the cycle of k nodes: root is an
\* allocation or a function, the nodes off the cycle are allocations, the
\* others a node without operands or one whose operand is a neighbour on
\* the cycle
RingCtorCalls(k, n) ==
    LET prev == IF n = 1 THEN k ELSE n - 1
        next == IF n = k THEN root ELSE n + 1
    IN  IF n = root THEN [t : {"ALLOC", "FUNCTION"}, ops : {<<>>}, off : {0}]
        ELSE IF n > k THEN [t : {"ALLOC"}, ops : {<<>>}, off : {0}]
        ELSE [t : {"ALLOC", "FUNCTION", "NULL_ADDR", "UNKNOWN_MEM"},
              ops : {<<>>}, off : {0}]
             \cup [t : {"GEP"}, ops : {<<prev>>, <<next>>}, off : {1}]
             \cup [t : {"PHI"}, ops : {<<prev, next>>}, off : {0}]
             \cup [t : {"CALL_FUNCPTR"}, ops : {<<prev>>, <<next>>}, off : {0}]

RECURSIVE RingCallsUpTo(_, _)
RingCallsUpTo(k, n) ==
    IF n = 0 THEN {<<>>}
    ELSE {Append(f, c) : f \in RingCallsUpTo(k, n - 1), c \in RingCtorCalls(k, n)}

\* the nodes off the cycle are allocations
RingFamilies(k) ==
    {f \in RingCallsUpTo(k, NumNodes) :
        Cardinality({n \in Nodes \ {root} : f[n].t # "ALLOC"}) <= MaxDerived}

RunBuildRing ==
    /\ pc = "new"
    /\ \E k \in RingSizes : \E f \in RingFamilies(k) : Build(Ring(k), f)

seed_noPush(S, ids, num, q) == getNodes(S, ids, num, q, nullptr, <<>>)

\* queue.push(root); getNodes(queue);
seed(S, ids, num, q) == getNodes(S, ids, num, Append(q, root), nullptr, <<>>)

\* run(): "initialize the queue"
RunSeed ==
    /\ pc = "start"
    /\ LET r == seed(successors, dfsid, dfsnum, queue)
       IN  /\ queue' = r.cont
           /\ dfsid' = r.dfsid
           /\ dfsnum' = r.dfsnum
    /\ pc' = "loop1"
    /\ call' = [op |-> "seed"]
    /\ UNCHANGED <<nodeVars, successors, predecessors, pointsTo, cont, hookVars,
                   old>>

\* a call run() makes on the node n
Event(name, n) == [call |-> name, n |-> n]

loopCalls_enqueueLast(cur, changed) ==
    <<Event("beforeProcessed", cur), Event("processNode", cur),
      Event("afterProcessed", cur)>>
    \o (IF changed THEN <<Event("enqueue", cur)>> ELSE <<>>)

\* the calls of one iteration of a while (!queue.empty()) loop, in order:
\* beforeProcessed(cur); if (processNode(cur)) enqueue(cur);
\* afterProcessed(cur);
loopCalls(cur, changed) ==
    <<Event("beforeProcessed", cur), Event("processNode", cur)>>
    \o (IF changed THEN <<Event("enqueue", cur)>> ELSE <<>>)
    \o <<Event("afterProcessed", cur)>>

\* DEBUG_ENABLED: beforeProcessed(cur); changed = processNode(cur);
\* afterProcessed(cur);
debugCalls(cur) ==
    <<Event("beforeProcessed", cur), Event("processNode", cur),
      Event("afterProcessed", cur)>>

\* the body of the two while (!queue.empty()) loops of run()
RunIterate ==
    /\ pc \in {"loop1", "loop2"}
    /\ queue # <<>>
    /\ dfsnum < MaxDfsnum
    /\ LET cur == Head(queue)
           r   == processNode(type, operands, offset, pointsTo, cur)
           e   == enqueue(successors, dfsid, dfsnum, Tail(queue), cur)
           fp  == calledFunctions(type, operands, pointsTo, cur)
       IN  /\ pointsTo' = [pointsTo EXCEPT ![cur] = r.pts]
           /\ IF r.ret
              THEN queue' = e.cont /\ dfsid' = e.dfsid /\ dfsnum' = e.dfsnum
              ELSE queue' = Tail(queue) /\ UNCHANGED <<dfsid, dfsnum>>
           /\ events' = loopCalls(cur, r.ret)
           /\ fpCalls' = fpCalls \o [i \in 1..Len(fp) |-> <<cur, fp[i]>>]
           /\ attached' = attached \ {cur}
           /\ call' = [op |-> "processNode", self |-> cur, ret |-> r.ret]
    /\ old' = [pts |-> pointsTo]
    /\ UNCHANGED <<nodeVars, successors, predecessors, pc, cont>>

\* the first loop ends; the second one finds the queue as the first left it
RunNextLoop ==
    /\ pc = "loop1"
    /\ queue = <<>>
    /\ pc' = "loop2"
    /\ UNCHANGED <<nodeVars, successors, predecessors, pointsTo, dfsid, dfsnum,
                   queue, cont, hookVars, call, old>>

\* DEBUG_ENABLED: queue.push(root); getNodes(queue); before the last pass
RunDebugSeed ==
    /\ pc = "loop2"
    /\ queue = <<>>
    /\ LET r == seed(successors, dfsid, dfsnum, queue)
       IN  /\ queue' = r.cont
           /\ dfsid' = r.dfsid
           /\ dfsnum' = r.dfsnum
    /\ pc' = "check"
    /\ call' = [op |-> "debugSeed"]
    /\ UNCHANGED <<nodeVars, successors, predecessors, pointsTo, cont, hookVars,
                   old>>

\* DEBUG_ENABLED: the last pass, whose result is not looked at
RunDebugIterate ==
    /\ pc = "check"
    /\ queue # <<>>
    /\ LET cur == Head(queue)
           r   == processNode(type, operands, offset, pointsTo, cur)
           fp  == calledFunctions(type, operands, pointsTo, cur)
       IN  /\ pointsTo' = [pointsTo EXCEPT ![cur] = r.pts]
           /\ events' = debugCalls(cur)
           /\ fpCalls' = fpCalls \o [i \in 1..Len(fp) |-> <<cur, fp[i]>>]
           /\ attached' = attached \ {cur}
           /\ call' = [op |-> "processNode", self |-> cur, ret |-> r.ret]
    /\ queue' = Tail(queue)
    /\ old' = [pts |-> pointsTo]
    /\ UNCHANGED <<nodeVars, successors, predecessors, dfsid, dfsnum, pc, cont>>

\* run() returns after the DEBUG_ENABLED pass
RunReturn ==
    /\ pc = "check"
    /\ queue = <<>>
    /\ pc' = "done"
    /\ call' = [op |-> "return", DEBUG_ENABLED |-> TRUE]
    /\ UNCHANGED <<nodeVars, successors, predecessors, pointsTo, dfsid, dfsnum,
                   queue, cont, hookVars, old>>

\* a build without DEBUG_ENABLED: run() returns after the second loop
RunReturnNoDebug ==
    /\ pc = "loop2"
    /\ queue = <<>>
    /\ pc' = "done"
    /\ call' = [op |-> "return", DEBUG_ENABLED |-> FALSE]
    /\ UNCHANGED <<nodeVars, successors, predecessors, pointsTo, dfsid, dfsnum,
                   queue, cont, hookVars, old>>

\* run() as a function of the PSG: the while (!queue.empty()) loop from the
\* points-to sets PT, the dfsids, dfsnum and the queue q
RECURSIVE mainLoop(_, _, _, _, _, _, _, _)
mainLoop(T, O, Off, S, PT, ids, num, q) ==
    IF q = <<>> THEN [pts |-> PT, dfsid |-> ids, dfsnum |-> num]
    ELSE Bind(processNode(T, O, Off, PT, Head(q)), LAMBDA r :
              IF r.ret
              THEN Bind(enqueue(S, ids, num, Tail(q), Head(q)), LAMBDA e :
                        mainLoop(T, O, Off, S, [PT EXCEPT ![Head(q)] = r.pts],
                                 e.dfsid, e.dfsnum, e.cont))
              ELSE mainLoop(T, O, Off, S, [PT EXCEPT ![Head(q)] = r.pts],
                            ids, num, Tail(q)))

\* DEBUG_ENABLED: the last pass over the queue q
RECURSIVE debugPass(_, _, _, _, _)
debugPass(T, O, Off, PT, q) ==
    IF q = <<>> THEN PT
    ELSE Bind(processNode(T, O, Off, PT, Head(q)), LAMBDA r :
              debugPass(T, O, Off, [PT EXCEPT ![Head(q)] = r.pts], Tail(q)))

\* void run() on a PSG just built: the points-to sets it returns with, in a
\* build with DEBUG_ENABLED (debug) or without
run(T, O, Off, S, PT, debug) ==
    LET s == seed(S, [n \in Nodes |-> 0], 0, <<>>)
        m == mainLoop(T, O, Off, S, PT, s.dfsid, s.dfsnum, s.cont)
        d == seed(S, m.dfsid, m.dfsnum, <<>>)
    IN  IF debug THEN debugPass(T, O, Off, m.pts, d.cont) ELSE m.pts

NextRun ==
    \/ RunBuild
    \/ RunSeed
    \/ RunIterate
    \/ RunNextLoop
    \/ RunDebugSeed
    \/ RunDebugIterate
    \/ RunReturn
    \/ RunReturnNoDebug

SpecRun == InitRun /\ [][NextRun]_vars

\* run() on the PSGs that are a cycle through root. run() is sequential
\* code: a step that can be taken is taken.
NextRunRing ==
    \/ RunBuildRing
    \/ RunSeed
    \/ RunIterate
    \/ RunNextLoop
    \/ RunDebugSeed
    \/ RunDebugIterate
    \/ RunReturn
    \/ RunReturnNoDebug

SpecRunFair == InitRun /\ [][NextRunRing]_vars /\ WF_vars(NextRunRing)

\* ------------------------------------------------------------ SpecAttach
\* run() of a subclass whose functionPointerCall attaches the callee.
\* A node that was constructed and not linked into the PSG: no edges, dfsid 0
Fresh(m) ==
    /\ successors[m] = <<>>
    /\ predecessors[m] = <<>>
    /\ dfsid[m] = 0
    /\ m \notin Reach(successors, {root})

\* an iteration of a loop of run() on a CALL_FUNCPTR node cur, in which
\* functionPointerCall(cur, callee) is called for a callee not reported
\* before, links the fresh node m behind the node a so that m is reachable
\* from cur, and returns true: processNode(cur) returns true and
\* enqueue(cur) follows
RunIterateAttach ==
    /\ pc \in {"loop1", "loop2"}
    /\ queue # <<>>
    /\ dfsnum < MaxDfsnum
    /\ LET cur == Head(queue)
           fp  == calledFunctions(type, operands, pointsTo, cur)
       IN  /\ \E i \in 1..Len(fp) : <<cur, fp[i]>> \notin Range(fpCalls)
           /\ \E m \in Nodes, a \in Nodes :
                 LET g == addSuccessor(successors, predecessors, a, m)
                     e == enqueue(g.s, dfsid, dfsnum, Tail(queue), cur)
                 IN  /\ Fresh(m)
                     /\ m \in Reach(g.s, {cur})
                     /\ successors' = g.s
                     /\ predecessors' = g.p
                     /\ queue' = e.cont
                     /\ dfsid' = e.dfsid
                     /\ dfsnum' = e.dfsnum
                     /\ attached' = (attached \ {cur}) \cup {m}
                     /\ call' = [op |-> "processNodeAttach", self |-> cur,
                                 ret |-> TRUE, node |-> m, behind |-> a]
           /\ events' = loopCalls(cur, TRUE)
           /\ fpCalls' = fpCalls \o [i \in 1..Len(fp) |-> <<cur, fp[i]>>]
    /\ old' = [pts |-> pointsTo]
    /\ UNCHANGED <<nodeVars, pointsTo, pc, cont>>

NextAttach ==
    \/ RunBuildRing
    \/ RunSeed
    \/ RunIterate
    \/ RunIterateAttach
    \/ RunNextLoop
    \/ RunDebugSeed
    \/ RunDebugIterate
    \/ RunReturn
    \/ RunReturnNoDebug

SpecAttach == InitRun /\ [][NextAttach]_vars

\* ----------------------------------------------------------- claims: run
\* one more processNode leaves the set of n as it is
Stable(n) ==
    processNode(type, operands, offset, pointsTo, n).pts = pointsTo[n]

\* C1 (P5, fixpoint on return): when run() has returned, processNode
\* applied once more to any node reachable from root changes no points-to
\* set, wherever the operands of the node lie in the graph.
C1_FixpointOnReturn ==
    pc = "done" => \A n \in Reach(successors, {root}) : Stable(n)

\* C2 (termination): with monotone transfer functions run() with the
\* default enqueue empties the worklist and returns, for every PSG,
\* cycles and a root on a cycle included.
C2_Termination == <>(pc = "done" /\ queue = <<>>)

\* witness of C2: run() has returned on a PSG whose root lies on a cycle,
\* after nodes were put on the worklist again
C2_Witness ==
    /\ pc = "done"
    /\ queue = <<>>
    /\ \E n \in Nodes \ {root} :
          n \in Reach(successors, {root}) /\ root \in Range(successors[n])
    /\ dfsnum > 3
    /\ \E n \in Nodes : Pointer(root, UNKNOWN_OFFSET) \in pointsTo[n]

\* the (target, offset) pairs a points-to set denotes: (t, UNKNOWN) stands
\* for every offset of t
Denoted(P) ==
    {q \in Pointers : q \in P \/ Pointer(q[1], UNKNOWN_OFFSET) \in P}

\* the step from P to Q replaced concrete offsets of some target by UNKNOWN
SaturatedBy(P, Q) ==
    \E t \in Nodes :
        /\ Pointer(t, UNKNOWN_OFFSET) \in Q \ P
        /\ \E q \in P \ Q : q[1] = t /\ ~isUnknown(q[2])

\* C3 (P1, monotonicity): for every node n and every step of run(), the
\* pairs denoted by n.pointsTo after the step include those denoted before
\* it, and the number of stored entries shrinks only by UNKNOWN-saturation.
C3_Monotonicity ==
    [][\A n \in Nodes :
          /\ Denoted(pointsTo[n]) \subseteq Denoted(pointsTo'[n])
          /\ Cardinality(pointsTo'[n]) < Cardinality(pointsTo[n]) =>
                SaturatedBy(pointsTo[n], pointsTo'[n])]_vars

\* witness of C3: a processNode step of run() shrank the stored set of its
\* node by saturation while the denoted set grew
C3_Witness ==
    /\ call.op = "processNode"
    /\ call.ret
    /\ Cardinality(pointsTo[call.self]) < Cardinality(old.pts[call.self])
    /\ Denoted(old.pts[call.self]) # Denoted(pointsTo[call.self])
    /\ Denoted(old.pts[call.self]) \subseteq Denoted(pointsTo[call.self])

\* C14 (P4, sentinel identity): in every state from construction through
\* the end of run(), a NULL_ADDR node's pointsTo is exactly {(self, 0)} and
\* an UNKNOWN_MEM node's pointsTo is exactly {(self, UNKNOWN)}.
C14_SentinelIdentity ==
    \A n \in Nodes :
        /\ type[n] = "NULL_ADDR" => pointsTo[n] = {Pointer(n, 0)}
        /\ type[n] = "UNKNOWN_MEM" => pointsTo[n] = {Pointer(n, UNKNOWN_OFFSET)}

\* witness of C14: run() has returned on a PSG where a sentinel was processed
\* and a GEP, PHI or call node next to it read its pointsTo
C14_Witness ==
    /\ pc = "done"
    /\ \E n \in Nodes, m \in Nodes :
          /\ type[n] \in {"NULL_ADDR", "UNKNOWN_MEM"}
          /\ n \in Reach(successors, {root})
          /\ n \in Range(operands[m])
          /\ type[m] \in {"GEP", "PHI"}
          /\ \E q \in pointsTo[m] : q[1] = n

\* the orders a list can be in
Reordered(list) ==
    {[i \in 1..Len(list) |-> list[f[i]]] :
        f \in {g \in [1..Len(list) -> 1..Len(list)] :
                 \A i, j \in 1..Len(list) : g[i] = g[j] => i = j}}

\* the successor lists of S, each in one of its orders
Reorderings(S) ==
    {S2 \in [Nodes -> UNION {Reordered(S[n]) : n \in Nodes}] :
        \A n \in Nodes : S2[n] \in Reordered(S[n])}

\* the points-to sets the nodes were constructed with
constructed ==
    [n \in Nodes |-> PSNode(n, type[n], operands[n], offset[n]).pointsTo]

\* C16 (order independence): for a fixed PSG the points-to set of every
\* node when run() returns is the same for every ordering of the successor
\* lists, which fixes the order the worklist is processed in.
C16_OrderIndependence ==
    pc = "done" =>
        \A S2 \in Reorderings(successors) :
            run(type, operands, offset, S2, constructed, call.DEBUG_ENABLED)
                = pointsTo

\* C17 (function-pointer hook count): when run() has returned, for every
\* CALL_FUNCPTR node whose operand points to a FUNCTION node F,
\* functionPointerCall(call, F) was invoked exactly once, however often the
\* CALL_FUNCPTR node was put on the worklist.
C17_HookOnce ==
    pc = "done" =>
        \A c \in Reach(successors, {root}), F \in Nodes :
            (/\ type[c] = "CALL_FUNCPTR"
             /\ type[F] = "FUNCTION"
             /\ \E q \in pointsTo[operands[c][1]] : q[1] = F) =>
                Count(fpCalls, <<c, F>>) = 1

\* C19 (default re-enqueue): whenever processNode(cur) returned true in a
\* loop of run(), every node reachable from cur via successors, cur
\* included, is pending in the worklist after enqueue(cur).
C19_ReEnqueue ==
    (/\ pc \in {"loop1", "loop2"}
     /\ call.op = "processNode"
     /\ call.ret) =>
        Reach(successors, {call.self}) \subseteq Range(queue)

\* the place of the call name(n) among the calls of the last iteration, 0
\* when it was not made
Place(name, n) ==
    IF Event(name, n) \in Range(events)
    THEN CHOOSE i \in 1..Len(events) : events[i] = Event(name, n)
    ELSE 0

\* C20 as stated (main-loop event order): for every node cur popped from
\* the worklist in run() the calls are beforeProcessed(cur),
\* processNode(cur), afterProcessed(cur) in this order, and enqueue(cur) is
\* called after afterProcessed(cur) if and only if processNode returned
\* true.
C20_EventOrder_EnqueueLast ==
    call.op = "processNode" =>
        /\ Place("beforeProcessed", call.self) = 1
        /\ Place("processNode", call.self) = 2
        /\ Place("afterProcessed", call.self) = 3
        /\ call.ret <=> Place("enqueue", call.self) = 4
        /\ Len(events) = IF call.ret THEN 4 ELSE 3

\* C20 (event order), amended: for every node cur popped from the worklist
\* in run() the calls are beforeProcessed(cur), processNode(cur),
\* afterProcessed(cur) in this order, each once and processNode never
\* outside the pair; in the two main loops enqueue(cur) is called between
\* processNode(cur) and afterProcessed(cur) if and only if processNode
\* returned true, and the DEBUG_ENABLED pass never calls enqueue.
C20_EventOrder ==
    call.op = "processNode" =>
        /\ \A i \in 1..Len(events) : events[i].n = call.self
        /\ \A i, j \in 1..Len(events) : events[i] = events[j] => i = j
        /\ Place("beforeProcessed", call.self) = 1
        /\ Place("processNode", call.self) = 2
        /\ Place("afterProcessed", call.self) = Len(events)
        /\ IF call.ret /\ pc \in {"loop1", "loop2"}
           THEN Place("enqueue", call.self) = 3 /\ Len(events) = 4
           ELSE Place("enqueue", call.self) = 0 /\ Len(events) = 3
        /\ Place("enqueue", call.self) # 0 => call.self \in Range(queue)

\* witness of C20: processNode(cur) returned true in a main loop, cur was
\* put on the worklist again and afterProcessed(cur) came last
C20_Witness ==
    /\ call.op = "processNode"
    /\ call.ret
    /\ pc \in {"loop1", "loop2"}
    /\ events[3] = Event("enqueue", call.self)
    /\ events[4] = Event("afterProcessed", call.self)
    /\ call.self \in Range(queue)
    /\ pointsTo[call.self] # old.pts[call.self]

\* C21 (discovery of attached nodes): when functionPointerCall attached a
\* fresh node (dfsid 0) that is reachable from the CALL_FUNCPTR node via
\* successors and processNode reported a change, the enqueue that follows
\* puts the node on the worklist, and no attached node is left unprocessed
\* when run() has returned.
C21_AttachedDiscovered ==
    /\ call.op = "processNodeAttach" => call.node \in Range(queue)
    /\ pc = "done" => attached = {}

\* C8 as stated: when run() enters its main loop the worklist contains root
\* and every node reachable from root, and no node more than once.
C8_Seeding_NoDuplicate ==
    call.op = "seed" =>
        /\ Reach(successors, {root}) \subseteq Range(queue)
        /\ \A n \in Nodes : Count(queue, n) <= 1

\* C8 (amended): when run() enters its main loop the worklist holds exactly
\* the nodes reachable from root, root twice (the explicit push and the
\* traversal) and every other one once.
C8_Seeding ==
    call.op = "seed" =>
        /\ pc = "loop1"
        /\ Range(queue) = Reach(successors, {root})
        /\ Count(queue, root) = 2
        /\ \A n \in Nodes \ {root} : Count(queue, n) <= 1

\* witness of C8: seeding on a PSG with a cycle through root and a node with
\* two successors
C8_Witness ==
    /\ call.op = "seed"
    /\ \E n \in Nodes \ {root} : root \in Range(successors[n])
    /\ \E n \in Nodes : Cardinality(Range(successors[n])) >= 2
    /\ Len(queue) = Cardinality(Reach(successors, {root})) + 1
    /\ Len(queue) >= 4

====
